---- MODULE Spec2Model ----
(***************************************************************************)
(* Model of the Escher REST client (src/src/client.rs): the four request   *)
(* operations of Client, the request bodies they compose, and the          *)
(* probe-then-classify decoding of the response body.                      *)
(*                                                                         *)
(* Text is a sequence of one-character strings, so that the conversions    *)
(* the client relies on (f32::from_str, the RFC 3339 timestamp parse, the  *)
(* lowercase renaming of Side) are computed character by character.        *)
(***************************************************************************)
EXTENDS Integers, Sequences, FiniteSets, TLC

(***************************************************************************)
(* Characters                                                              *)
(***************************************************************************)
Digits == {"0", "1", "2", "3", "4", "5", "6", "7", "8", "9"}

DigitVal(c) ==
    CASE c = "0" -> 0 [] c = "1" -> 1 [] c = "2" -> 2 [] c = "3" -> 3
      [] c = "4" -> 4 [] c = "5" -> 5 [] c = "6" -> 6 [] c = "7" -> 7
      [] c = "8" -> 8 [] c = "9" -> 9

\* ASCII lowercase of the letters that occur in the modelled texts.
ToLowerChar(c) ==
    CASE c = "B" -> "b" [] c = "S" -> "s" [] c = "N" -> "n" [] c = "I" -> "i"
      [] c = "F" -> "f" [] c = "A" -> "a" [] c = "U" -> "u" [] c = "Y" -> "y"
      [] c = "E" -> "e" [] c = "L" -> "l" [] c = "T" -> "t" [] c = "Z" -> "z"
      [] OTHER -> c

ToLower(s) == [i \in 1..Len(s) |-> ToLowerChar(s[i])]

Drop(s, n) == SubSeq(s, n + 1, Len(s))

RECURSIVE DigitRun(_, _)
\* Number of leading digits of s from position i on.
DigitRun(s, i) ==
    IF i <= Len(s) /\ s[i] \in Digits THEN 1 + DigitRun(s, i + 1) ELSE 0

RECURSIVE DigitsValue(_)
\* The natural number written by a sequence of digits ("" is 0).
DigitsValue(s) ==
    IF s = <<>> THEN 0
    ELSE 10 * DigitsValue(SubSeq(s, 1, Len(s) - 1)) + DigitVal(s[Len(s)])

RECURSIVE Pow(_, _)
Pow(b, n) == IF n = 0 THEN 1 ELSE b * Pow(b, n - 1)

(***************************************************************************)
(* f32: the numeric type of Quote and Order fields and of the accept_quote *)
(* quantity.  A finite value is neg * m * 2^e with m odd (or m = 0), so    *)
(* that equal values are equal records; NaN and the infinities are kept    *)
(* as their own classes.                                                   *)
(***************************************************************************)
MantBits == 24

F32Nan == [c |-> "nan"]
F32Inf(neg) == [c |-> "inf", neg |-> neg]
F32Zero(neg) == [c |-> "fin", neg |-> neg, m |-> 0, e |-> 0]

RECURSIVE Canon(_, _)
\* Strip the factors of two of a non-zero mantissa.
Canon(m, e) == IF m % 2 = 0 THEN Canon(m \div 2, e + 1) ELSE [m |-> m, e |-> e]

RECURSIVE RoundRatio(_, _, _)
\* The f32 nearest to num / den * 2^e (num, den > 0), ties to even.
RoundRatio(num, den, e) ==
    IF num >= Pow(2, MantBits) * den THEN RoundRatio(num, 2 * den, e + 1)
    ELSE IF num < Pow(2, MantBits - 1) * den THEN RoundRatio(2 * num, den, e - 1)
    ELSE LET q == num \div den
             r == num % den
             up == (2 * r > den) \/ (2 * r = den /\ q % 2 = 1)
         IN  Canon(IF up THEN q + 1 ELSE q, e)

\* The f32 nearest to the decimal digits * 10^p10.
F32OfDecimal(neg, digits, p10) ==
    IF digits = 0 THEN F32Zero(neg)
    ELSE LET r == IF p10 >= 0 THEN RoundRatio(digits * Pow(10, p10), 1, 0)
                  ELSE RoundRatio(digits, Pow(10, -p10), 0)
         IN  [c |-> "fin", neg |-> neg, m |-> r.m, e |-> r.e]

\* The end of the number scan: ni integer digits, a fraction part of dl
\* characters ('.' included, 0 without one), and, with hasE, an exponent of
\* ne digits from position e0 on.  A number has a digit, has exponent digits
\* if it has an 'e', and takes up the whole text.
ScanEnd(body, ni, dl, hasE, eneg, e0, ne) ==
    IF /\ ni + (IF dl > 0 THEN dl - 1 ELSE 0) >= 1
       /\ hasE => ne >= 1
       /\ (IF hasE THEN e0 + ne - 1 ELSE ni + dl) = Len(body)
    THEN [ok |-> TRUE,
          digits |-> DigitsValue(SubSeq(body, 1, ni) \o SubSeq(body, ni + 2, ni + dl)),
          p10 |-> (IF eneg THEN -1 ELSE 1) * DigitsValue(SubSeq(body, e0, e0 + ne - 1))
                  - (IF dl > 0 THEN dl - 1 ELSE 0)]
    ELSE [ok |-> FALSE]

\* The optional exponent, after position at: e or E, an optional sign, digits.
ScanExponent(body, ni, dl, at) ==
    IF at + 1 <= Len(body) /\ body[at + 1] \in {"e", "E"}
    THEN IF at + 2 <= Len(body) /\ body[at + 2] \in {"-", "+"}
         THEN ScanEnd(body, ni, dl, TRUE, body[at + 2] = "-", at + 3, DigitRun(body, at + 3))
         ELSE ScanEnd(body, ni, dl, TRUE, FALSE, at + 2, DigitRun(body, at + 2))
    ELSE ScanEnd(body, ni, dl, FALSE, FALSE, at + 1, 0)

\* The optional fraction after ni integer digits: '.' and digits.
ScanFraction(body, ni, dl) == ScanExponent(body, ni, dl, ni + dl)

ScanNumber(body, ni) ==
    ScanFraction(body, ni,
                 IF ni + 1 <= Len(body) /\ body[ni + 1] = "."
                     THEN 1 + DigitRun(body, ni + 2) ELSE 0)

\* The text after the sign: a number, or else inf, infinity or nan in any case.
ParseUnsigned(neg, low, num) ==
    IF num.ok
        THEN [ok |-> TRUE, v |-> F32OfDecimal(neg, num.digits, num.p10)]
    ELSE IF low \in {<<"i", "n", "f">>, <<"i", "n", "f", "i", "n", "i", "t", "y">>}
        THEN [ok |-> TRUE, v |-> F32Inf(neg)]
    ELSE IF low = <<"n", "a", "n">>
        THEN [ok |-> TRUE, v |-> F32Nan]
    ELSE [ok |-> FALSE, err |-> "invalid float literal"]

ParseSigned(neg, body) ==
    ParseUnsigned(neg, ToLower(body), ScanNumber(body, DigitRun(body, 1)))

\* <f32 as FromStr>::from_str: [sign] (inf | infinity | nan | number), where
\* number is digits, an optional '.', digits, with at least one digit, and an
\* optional exponent e[sign]digits+.  The whole text must be consumed.
ParseF32(s) ==
    IF s = <<>> THEN [ok |-> FALSE, err |-> "cannot parse float from empty string"]
    ELSE ParseSigned(s[1] = "-", IF s[1] \in {"-", "+"} THEN Drop(s, 1) ELSE s)

(***************************************************************************)
(* chrono's DateTime<Utc> parse of a JSON string, for the texts of the     *)
(* form YYYY-MM-DDThh:mm:ssZ; anything else among the modelled texts is no *)
(* timestamp.                                                              *)
(***************************************************************************)
DaysInMonth(y, mo) ==
    IF mo = 2 THEN (IF (y % 4 = 0 /\ y % 100 # 0) \/ y % 400 = 0 THEN 29 ELSE 28)
    ELSE IF mo \in {4, 6, 9, 11} THEN 30 ELSE 31

ParseDateTime(s) ==
    LET shape == /\ Len(s) = 20
                 /\ \A i \in {1, 2, 3, 4, 6, 7, 9, 10, 12, 13, 15, 16, 18, 19} :
                        s[i] \in Digits
                 /\ s[5] = "-" /\ s[8] = "-" /\ s[11] \in {"T", "t", " "}
                 /\ s[14] = ":" /\ s[17] = ":" /\ s[20] \in {"Z", "z"}
        y  == DigitsValue(SubSeq(s, 1, 4))
        mo == DigitsValue(SubSeq(s, 6, 7))
        d  == DigitsValue(SubSeq(s, 9, 10))
        h  == DigitsValue(SubSeq(s, 12, 13))
        mi == DigitsValue(SubSeq(s, 15, 16))
        se == DigitsValue(SubSeq(s, 18, 19))
    IN  IF ~shape THEN [ok |-> FALSE, err |-> "input contains invalid characters"]
        ELSE IF ~(mo \in 1..12 /\ d \in 1..DaysInMonth(y, mo)
                  /\ h < 24 /\ mi < 60 /\ se < 60)
            THEN [ok |-> FALSE, err |-> "input is out of range"]
        ELSE [ok |-> TRUE,
              v |-> [year |-> y, month |-> mo, day |-> d,
                     hour |-> h, minute |-> mi, second |-> se]]

(***************************************************************************)
(* serde_json::Value                                                       *)
(***************************************************************************)
JNull == [t |-> "null"]
JBool(b) == [t |-> "bool", b |-> b]
JNum(n) == [t |-> "num", n |-> n]
JStr(s) == [t |-> "str", s |-> s]
JArr(a) == [t |-> "arr", a |-> a]
JObj(o) == [t |-> "obj", o |-> o]

\* An integer as a JSON number (same mantissa/exponent form as f32 values).
IntNum(i) ==
    IF i = 0 THEN [neg |-> FALSE, m |-> 0, e |-> 0]
    ELSE LET c == Canon(IF i < 0 THEN -i ELSE i, 0)
         IN  [neg |-> i < 0, m |-> c.m, e |-> c.e]

(***************************************************************************)
(* Side and its lowercase wire tokens (#[serde(rename_all = "lowercase")]) *)
(***************************************************************************)
Side == {"Buy", "Sell"}

VariantName(side) ==
    CASE side = "Buy" -> <<"B", "u", "y">>
      [] side = "Sell" -> <<"S", "e", "l", "l">>

\* SideToken without the rename_all attribute: the identifier as written.
SideToken_AsWritten(side) == VariantName(side)

\* The wire token of a variant: its identifier, lowercased.
SideToken(side) == ToLower(VariantName(side))

\* Serialize for Side: a unit variant is written as its token string.
SerializeSide(side) == JStr(SideToken(side))

(***************************************************************************)
(* The Deserialize implementations.  A decode returns [ok |-> TRUE, v] or  *)
(* [ok |-> FALSE, err], err being the serde_json error it stops at.        *)
(***************************************************************************)
DOk(v) == [ok |-> TRUE, v |-> v]
DErr(e) == [ok |-> FALSE, err |-> e]

InvalidType(j, expected) == [e |-> "invalid type", got |-> j.t, expected |-> expected]
MissingField(f) == [e |-> "missing field", field |-> f]
InvalidLength(n, expected) == [e |-> "invalid length", len |-> n, expected |-> expected]
Custom(msg) == [e |-> "custom", msg |-> msg]
UnknownVariant(s) == [e |-> "unknown variant", got |-> s]

StructTypes == {"AuthResult", "AuthResponse", "Quote", "Order", "AcceptQuote", "EscherError"}

\* The fields of each struct in declaration order, as <<wire name, type>>.
\* "f32str" is a field with deserialize_with = "from_str".
Fields(ty) ==
    CASE ty = "AuthResult" ->
           << <<"AccessToken", "String">>, <<"RefreshToken", "String">> >>
      [] ty = "AuthResponse" ->
           << <<"AuthenticationResult", "AuthResult">> >>
      [] ty = "Quote" ->
           << <<"quote_id", "String">>, <<"product_id", "String">>,
              <<"base_currency", "String">>, <<"price", "f32str">>,
              <<"base_currency_size", "f32str">>, <<"quote_currency_size", "f32str">>,
              <<"side", "Side">>, <<"created_at", "DateTime">>,
              <<"expiry", "DateTime">> >>
      [] ty = "Order" ->
           << <<"id", "String">>, <<"product_id", "String">>,
              <<"order_type", "String">>, <<"order_status", "String">>,
              <<"time_in_force", "String">>, <<"fill_price", "f32str">>,
              <<"fill_qty", "f32str">>, <<"price", "f32str">>,
              <<"order_size", "f32str">>, <<"client_side", "Side">>,
              <<"status", "String">>, <<"executed_value", "f32str">> >>
      [] ty = "AcceptQuote" ->
           << <<"success", "bool">>, <<"quote_id", "String">>, <<"order", "Order">> >>
      [] ty = "EscherError" ->
           << <<"success", "bool">>, <<"message", "String">> >>

\* The same field names in the key order of serde_json's Map (a BTreeMap),
\* which is the order a struct visitor meets the entries of an object in.
SortedKeys(ty) ==
    CASE ty = "AuthResult" -> <<"AccessToken", "RefreshToken">>
      [] ty = "AuthResponse" -> <<"AuthenticationResult">>
      [] ty = "Quote" ->
           <<"base_currency", "base_currency_size", "created_at", "expiry", "price",
             "product_id", "quote_currency_size", "quote_id", "side">>
      [] ty = "Order" ->
           <<"client_side", "executed_value", "fill_price", "fill_qty", "id",
             "order_size", "order_status", "order_type", "price", "product_id",
             "status", "time_in_force">>
      [] ty = "AcceptQuote" -> <<"order", "quote_id", "success">>
      [] ty = "EscherError" -> <<"message", "success">>

FieldNames(ty) == {Fields(ty)[i][1] : i \in 1..Len(Fields(ty))}

FieldType(ty, name) ==
    LET i == CHOOSE k \in 1..Len(Fields(ty)) : Fields(ty)[k][1] = name
    IN  Fields(ty)[i][2]

\* What a parse gave: its value, or its error as serde::de::Error::custom.
Parsed(p) == IF p.ok THEN DOk(p.v) ELSE DErr(Custom(p.err))

Defaulted(p, default) == IF p.ok THEN DOk(p.v) ELSE DOk(default)

\* from_str that falls back to 0.0 on text that does not parse.
from_str_lenient(j) ==
    IF j.t # "str" THEN DErr(InvalidType(j, "a string"))
    ELSE Defaulted(ParseF32(j.s), F32Zero(FALSE))

\* from_str: the field must be a JSON string, and the string must parse.
from_str(j) ==
    IF j.t # "str" THEN DErr(InvalidType(j, "a string"))
    ELSE Parsed(ParseF32(j.s))

\* Deserialize for Side: a JSON string that is one of the renamed variants
\* (the single-key object form of an enum is not among the modelled bodies).
DecodeSide(j) ==
    IF j.t # "str" THEN DErr(InvalidType(j, "string or map"))
    ELSE IF \E sd \in Side : SideToken(sd) = j.s
        THEN DOk(CHOOSE sd \in Side : SideToken(sd) = j.s)
    ELSE DErr(UnknownVariant(j.s))

DecodeDateTime(j) ==
    IF j.t # "str" THEN DErr(InvalidType(j, "a formatted date and time string"))
    ELSE Parsed(ParseDateTime(j.s))

RECURSIVE Decode(_, _)
\* serde_json::from_value::<ty>(j).  A struct is read from an object (entries
\* in key order, unknown keys ignored, then the first missing field in
\* declaration order) or from an array (fields by position).
Decode(ty, j) ==
    CASE ty = "String" ->
           IF j.t = "str" THEN DOk(j.s) ELSE DErr(InvalidType(j, "a string"))
      [] ty = "bool" ->
           IF j.t = "bool" THEN DOk(j.b) ELSE DErr(InvalidType(j, "a boolean"))
      [] ty = "f32str" -> from_str(j)
      [] ty = "Side" -> DecodeSide(j)
      [] ty = "DateTime" -> DecodeDateTime(j)
      [] ty \in StructTypes ->
           LET fs == Fields(ty)
               n  == Len(fs)
           IN
           IF j.t = "obj" THEN
               LET present == SelectSeq(SortedKeys(ty), LAMBDA k : k \in DOMAIN j.o)
                   res == [i \in 1..Len(present) |->
                             Decode(FieldType(ty, present[i]), j.o[present[i]])]
                   bad == {i \in 1..Len(present) : ~res[i].ok}
                   missing == {i \in 1..n : fs[i][1] \notin DOMAIN j.o}
                   at(k) == CHOOSE i \in 1..Len(present) : present[i] = k
                   Min(S) == CHOOSE i \in S : \A i2 \in S : i <= i2
               IN  IF bad # {} THEN DErr(res[Min(bad)].err)
                   ELSE IF missing # {} THEN DErr(MissingField(fs[Min(missing)][1]))
                   ELSE DOk([k \in FieldNames(ty) |-> res[at(k)].v])
           ELSE IF j.t = "arr" THEN
               LET have == IF Len(j.a) < n THEN Len(j.a) ELSE n
                   res == [i \in 1..have |-> Decode(fs[i][2], j.a[i])]
                   bad == {i \in 1..have : ~res[i].ok}
                   at(k) == CHOOSE i \in 1..n : fs[i][1] = k
                   Min(S) == CHOOSE i \in S : \A i2 \in S : i <= i2
               IN  IF bad # {} THEN DErr(res[Min(bad)].err)
                   ELSE IF Len(j.a) < n THEN DErr(InvalidLength(Len(j.a), ty))
                   ELSE IF Len(j.a) > n
                       THEN DErr(InvalidLength(Len(j.a), "fewer elements in array"))
                   ELSE DOk([k \in FieldNames(ty) |-> res[at(k)].v])
           ELSE DErr(InvalidType(j, ty))

(***************************************************************************)
(* Error and EscherResult                                                  *)
(***************************************************************************)
Ok(v) == [kind |-> "Ok", value |-> v]
\* impl From<reqwest::Error> for Error
NetworkingError(e) == [kind |-> "NetworkingError", err |-> e]
\* impl From<serde_json::Error> for Error
DecodingError(e) == [kind |-> "DecodingError", err |-> e]
HandledError(e) == [kind |-> "HandledError", err |-> e]

(***************************************************************************)
(* Texts used as inputs and in response bodies                             *)
(***************************************************************************)
TxtEmail == <<"a", "@", "b">>
TxtPassword == <<"p", "w">>
TxtToken == <<"t", "o", "k">>
TxtRefresh == <<"r", "t">>
TxtQ1 == <<"q", "1">>
TxtBtcUsd == <<"B", "T", "C", "-", "U", "S", "D">>
TxtBtc == <<"B", "T", "C">>
TxtSize == <<"1", ".", "5">>
TxtPrice == <<"5", "0", "0", "0", "0", ".", "0", "0">>
TxtQuoteSize == <<"7", "5", "0", "0", "0", ".", "0", "0">>
TxtFillPrice == <<"1", "2", "3", ".", "4", "5">>
TxtBadNumber == <<"1", ",", "5">>
TxtCreated ==
    <<"2", "0", "2", "3", "-", "0", "1", "-", "0", "1", "T",
      "0", "0", ":", "0", "0", ":", "0", "0", "Z">>
TxtExpiry ==
    <<"2", "0", "2", "3", "-", "0", "1", "-", "0", "1", "T",
      "0", "0", ":", "0", "5", ":", "0", "0", "Z">>
TxtBadDate ==
    <<"2", "0", "2", "3", "-", "1", "3", "-", "0", "1", "T",
      "0", "0", ":", "0", "0", ":", "0", "0", "Z">>
TxtExpired ==
    <<"q", "u", "o", "t", "e", " ", "e", "x", "p", "i", "r", "e", "d">>
TxtDenied == <<"d", "e", "n", "i", "e", "d">>
TxtDone == <<"d", "o", "n", "e">>
TxtFilled == <<"f", "i", "l", "l", "e", "d">>
TxtLimit == <<"l", "i", "m", "i", "t">>
TxtFok == <<"F", "O", "K">>

Messages == {TxtExpired, TxtDenied}

\* f32 values a caller may pass as the accept_quote quantity.
Half == [c |-> "fin", neg |-> FALSE, m |-> 1, e |-> -1]
Tenth == [c |-> "fin", neg |-> FALSE, m |-> 13421773, e |-> -27]
None == [some |-> FALSE]
Some(v) == [some |-> TRUE, v |-> v]
Quantities == {None, Some(Half), Some(Tenth), Some(F32Nan), Some(F32Inf(FALSE))}

(***************************************************************************)
(* Response bodies the server may return                                   *)
(***************************************************************************)
ErrorFields(flag, msg) == ("success" :> JBool(flag)) @@ ("message" :> JStr(msg))

AuthObj ==
    "AuthenticationResult" :>
        JObj(("AccessToken" :> JStr(TxtToken)) @@ ("RefreshToken" :> JStr(TxtRefresh)))

QuoteObj ==
    ("quote_id" :> JStr(TxtQ1)) @@ ("product_id" :> JStr(TxtBtcUsd))
    @@ ("base_currency" :> JStr(TxtBtc)) @@ ("price" :> JStr(TxtPrice))
    @@ ("base_currency_size" :> JStr(TxtSize))
    @@ ("quote_currency_size" :> JStr(TxtQuoteSize))
    @@ ("side" :> JStr(<<"b", "u", "y">>))
    @@ ("created_at" :> JStr(TxtCreated)) @@ ("expiry" :> JStr(TxtExpiry))

OrderObj ==
    ("id" :> JStr(<<"o", "1">>)) @@ ("product_id" :> JStr(TxtBtcUsd))
    @@ ("order_type" :> JStr(TxtLimit)) @@ ("order_status" :> JStr(TxtFilled))
    @@ ("time_in_force" :> JStr(TxtFok)) @@ ("fill_price" :> JStr(TxtFillPrice))
    @@ ("fill_qty" :> JStr(TxtSize)) @@ ("price" :> JStr(TxtPrice))
    @@ ("order_size" :> JStr(TxtSize))
    @@ ("client_side" :> JStr(<<"s", "e", "l", "l">>))
    @@ ("status" :> JStr(TxtDone)) @@ ("executed_value" :> JStr(TxtQuoteSize))

AcceptObj(flag, order) ==
    ("success" :> JBool(flag)) @@ ("quote_id" :> JStr(TxtQ1)) @@ ("order" :> JObj(order))

\* Bodies of the structured-error shape, and near misses of it.
ErrorBodies ==
    {JObj(ErrorFields(FALSE, m)) : m \in Messages}
    \cup {JObj(ErrorFields(TRUE, TxtDone)),
          JObj(ErrorFields(FALSE, TxtDenied) @@ ("code" :> JNum(IntNum(7)))),
          JObj("success" :> JBool(FALSE)),
          JObj(("success" :> JStr(<<"n", "o">>)) @@ ("message" :> JStr(TxtDenied))),
          JObj(("success" :> JBool(FALSE)) @@ ("message" :> JNull)),
          JArr(<<JBool(FALSE), JStr(TxtExpired)>>)}

\* Bodies of a success shape, with and without the error-shape fields, and
\* near misses of them.
SuccessBodies ==
    {JObj(AuthObj),
     JObj(AuthObj @@ ErrorFields(FALSE, TxtDenied)),
     JObj("AuthenticationResult" :> JObj("AccessToken" :> JStr(TxtToken))),
     JObj(QuoteObj),
     JObj(QuoteObj @@ ErrorFields(FALSE, TxtExpired)),
     JObj(("price" :> JStr(TxtBadNumber)) @@ QuoteObj),
     JObj(("price" :> JStr(TxtBadNumber)) @@ QuoteObj @@ ErrorFields(FALSE, TxtExpired)),
     JObj(("price" :> JNum(IntNum(50000))) @@ QuoteObj),
     JObj(("side" :> JStr(<<"B", "U", "Y">>)) @@ QuoteObj),
     JObj(("expiry" :> JStr(TxtBadDate)) @@ QuoteObj),
     JObj(AcceptObj(TRUE, OrderObj)),
     JObj(AcceptObj(FALSE, OrderObj)),
     JObj(AcceptObj(TRUE, OrderObj) @@ ("message" :> JStr(TxtDone))),
     JObj(AcceptObj(TRUE, ("fill_qty" :> JStr(TxtBadNumber)) @@ OrderObj)),
     JObj(AcceptObj(FALSE, ("fill_qty" :> JStr(<<>>)) @@ OrderObj)
          @@ ("message" :> JStr(TxtDenied)))}

\* Valid JSON of neither shape for any operation.
OtherBodies ==
    {JObj(<<>>), JObj("foo" :> JNum(IntNum(1))), JNull, JStr(TxtDone),
     JArr(<<JNum(IntNum(1))>>)}

Bodies == ErrorBodies \cup SuccessBodies \cup OtherBodies

Statuses == {200, 500}

\* What the transport does with one request: it fails before a response
\* arrives, or delivers a response whose body is JSON text (given by the
\* value it parses to), text that is not JSON, or is cut short while read.
Outcomes ==
    {[delivered |-> FALSE, failure |-> f] : f \in {"connect", "timeout"}}
    \cup {[delivered |-> TRUE, status |-> st, payload |-> [form |-> "json", value |-> b]] :
            st \in Statuses, b \in Bodies}
    \cup {[delivered |-> TRUE, status |-> st, payload |-> [form |-> f]] :
            st \in Statuses, f \in {"not json", "aborted"}}

(***************************************************************************)
(* Bounds                                                                  *)
(***************************************************************************)
\* Calls made on one client in a behaviour.
MaxCalls == 2

(***************************************************************************)
(* The client and the last call made on it                                 *)
(***************************************************************************)
VARIABLES
    client,     \* the Client: its base url
    calls,      \* calls made so far
    sent,       \* outbound requests issued so far
    call,       \* the last call: operation and arguments
    outbox,     \* the requests the last call issued, in order
    response,   \* what the transport did with the last call's request
    attempts,   \* the typed decodes the last call tried, in order
    result      \* the EscherResult the last call returned

vars == <<client, calls, sent, call, outbox, response, attempts, result>>

Urls == {<<"h", "t", "t", "p", ":", "/", "/", "x">>}

\* Client::init
init(url) == [url |-> url]

NoHeaders == <<>>

\* The request built by .post(url + path).json(body)[.header(..)].
Post(base, path, headers, body) ==
    [method |-> "POST", url |-> <<base, path>>, headers |-> headers, body |-> body]

\* Serialize for Option<f32> inside json!: None is null; Some(f) is the number
\* f, and serde_json writes a value that is not finite as null.
SerializeQuantity(q) ==
    IF ~q.some THEN JNull
    ELSE IF q.v.c = "fin" THEN JNum([neg |-> q.v.neg, m |-> q.v.m, e |-> q.v.e])
    ELSE JNull

\* send() that issues the request again after a transport failure.
send_retry(req, outcome) ==
    [requests |-> IF outcome.delivered THEN <<req>> ELSE <<req, req>>,
     resp |-> IF outcome.delivered
                  THEN DOk([status |-> outcome.status, payload |-> outcome.payload])
                  ELSE DErr([reqwest |-> outcome.failure])]

\* .send(): the request goes out once; the call gets the response or the
\* transport's error.
send(req, outcome) ==
    [requests |-> <<req>>,
     resp |-> IF outcome.delivered
                  THEN DOk([status |-> outcome.status, payload |-> outcome.payload])
                  ELSE DErr([reqwest |-> outcome.failure])]

\* resp.json() preceded by a check of the status (error_for_status).
ResponseJson_CheckStatus(resp) ==
    IF resp.status >= 400 THEN DErr([reqwest |-> "status"])
    ELSE CASE resp.payload.form = "json" -> DOk(resp.payload.value)
           [] resp.payload.form = "not json" -> DErr([reqwest |-> "decode"])
           [] resp.payload.form = "aborted" -> DErr([reqwest |-> "body"])

\* resp.json::<serde_json::Value>(): reads the whole body and parses it; both
\* failures are reqwest errors.  The status of the response is not looked at.
ResponseJson(resp) ==
    CASE resp.payload.form = "json" -> DOk(resp.payload.value)
      [] resp.payload.form = "not json" -> DErr([reqwest |-> "decode"])
      [] resp.payload.form = "aborted" -> DErr([reqwest |-> "body"])

\* The map_err closure: the error-shape decode decides the error returned.
Fallback(second) ==
    IF second.ok THEN HandledError(second.v) ELSE DecodingError(second.err)

\* The result of the success decode `first`, with the closure run only if it
\* failed, and the decodes made.
Probe(ty, first, second) ==
    IF first.ok
        THEN [result |-> Ok(first.v),
              attempts |-> <<[ty |-> ty, res |-> first]>>]
    ELSE [result |-> Fallback(second),
          attempts |-> <<[ty |-> ty, res |-> first],
                         [ty |-> "EscherError", res |-> second]>>]

\* Probe with the error shape tried before the success type.
ProbeErrorFirst(ty, first, second) ==
    IF second.ok
        THEN [result |-> HandledError(second.v),
              attempts |-> <<[ty |-> "EscherError", res |-> second]>>]
    ELSE [result |-> IF first.ok THEN Ok(first.v) ELSE DecodingError(first.err),
          attempts |-> <<[ty |-> "EscherError", res |-> second],
                         [ty |-> ty, res |-> first]>>]

\* Probe without the closure: a direct typed decode.
ProbeOnce(ty, first) ==
    [result |-> IF first.ok THEN Ok(first.v) ELSE DecodingError(first.err),
     attempts |-> <<[ty |-> ty, res |-> first]>>]

\* The classification with the two probes in the other order.
Classify_ErrorShapeFirst(ty, v) ==
    ProbeErrorFirst(ty, Decode(ty, v), Decode("EscherError", v))

\* The classification without the error-shape probe.
Classify_NoErrorProbe(ty, v) == ProbeOnce(ty, Decode(ty, v))

\* from_value::<ty>(v.clone()).map_err(|_| match from_value::<EscherError>(v)
\* { Ok(err) => HandledError(err), Err(err) => err.into() }), with the decodes
\* it makes.
Classify(ty, v) == Probe(ty, Decode(ty, v), Decode("EscherError", v))

\* Classify over the success types and the modelled bodies, computed once.
Classified ==
    [ty \in {"AuthResponse", "Quote", "AcceptQuote"} |-> [v \in Bodies |-> Classify(ty, v)]]

\* The call's result for a failed resp.json(), were it a decoding error.
Parsed_AsDecodingError(ty, json) ==
    IF json.ok THEN Classified[ty][json.v]
    ELSE [result |-> DecodingError(json.err), attempts |-> <<>>]

\* Receive that reports a body that is not JSON as a decoding error.
Receive_ParseFailureAsDecoding(ty, resp) == Parsed_AsDecodingError(ty, ResponseJson(resp))

\* The call's result given the outcome of resp.json(): the classification of
\* the value, or the reqwest error converted by From<reqwest::Error>.
OnJson(ty, json) ==
    IF json.ok THEN Classified[ty][json.v]
    ELSE [result |-> NetworkingError(json.err), attempts |-> <<>>]

\* What a call does with the response it received: the generic JSON parse,
\* then the classification.
Receive(ty, resp) == OnJson(ty, ResponseJson(resp))

\* The call's result given what send() returned: a transport error is
\* returned at once (the ? after send()), else the response is handled.
OnSent(ty, tx) ==
    IF tx.resp.ok
        THEN [requests |-> tx.requests,
              result |-> Receive(ty, tx.resp.v).result,
              attempts |-> Receive(ty, tx.resp.v).attempts]
    ELSE [requests |-> tx.requests,
          result |-> NetworkingError(tx.resp.err),
          attempts |-> <<>>]

\* The part the four operations share: issue the request and handle what
\* comes back.
Exchange(ty, req, outcome) == OnSent(ty, send(req, outcome))

SuccessType(op) ==
    CASE op = "sign_in" -> "AuthResponse"
      [] op = "refresh_token" -> "AuthResponse"
      [] op = "quote" -> "Quote"
      [] op = "accept_quote" -> "AcceptQuote"

\* A call returns: what it was, what it issued and received, the decodes it
\* made and its result are recorded; the client itself is not changed.
Return(op, args, x, outcome) ==
    /\ calls < MaxCalls
    /\ calls' = calls + 1
    /\ sent' = sent + Len(x.requests)
    /\ call' = [op |-> op, args |-> args]
    /\ outbox' = x.requests
    /\ response' = outcome
    /\ attempts' = x.attempts
    /\ result' = x.result
    /\ UNCHANGED client

Init ==
    /\ client \in {init(u) : u \in Urls}
    /\ calls = 0
    /\ sent = 0
    /\ call = [op |-> "none"]
    /\ outbox = <<>>
    /\ response = [delivered |-> FALSE, failure |-> "none"]
    /\ attempts = <<>>
    /\ result = [kind |-> "none"]

sign_in ==
    \E outcome \in Outcomes :
        LET email == TxtEmail
            password == TxtPassword
            req == Post(client.url, "/sign-in", NoHeaders,
                        JObj(("email" :> JStr(email)) @@ ("password" :> JStr(password))))
        IN  Return("sign_in", [email |-> email, password |-> password],
                   Exchange("AuthResponse", req, outcome), outcome)

refresh_token ==
    \E outcome \in Outcomes :
        LET token == TxtRefresh
            email == TxtEmail
            req == Post(client.url, "/sign-in", NoHeaders,
                        JObj(("refreshToken" :> JStr(token)) @@ ("email" :> JStr(email))))
        IN  Return("refresh_token", [token |-> token, email |-> email],
                   Exchange("AuthResponse", req, outcome), outcome)

quote ==
    \E side \in Side, outcome \in Outcomes :
        LET access_token == TxtToken
            product_id == TxtBtcUsd
            base_currency_size == TxtSize
            params == JObj(("product_id" :> JStr(product_id))
                           @@ ("base_currency_size" :> JStr(base_currency_size))
                           @@ ("side" :> SerializeSide(side)))
            req == Post(client.url, "/quotes", "i2-ACCESS-KEY" :> access_token, params)
        IN  Return("quote",
                   [access_token |-> access_token, product_id |-> product_id,
                    base_currency_size |-> base_currency_size, side |-> side],
                   Exchange("Quote", req, outcome), outcome)

accept_quote ==
    \E quantity \in Quantities, outcome \in Outcomes :
        LET access_token == TxtToken
            quote_id == TxtQ1
            req == Post(client.url, "/quotes/accept", "i2-ACCESS-KEY" :> access_token,
                        JObj(("quote_id" :> JStr(quote_id))
                             @@ ("quantity" :> SerializeQuantity(quantity))))
        IN  Return("accept_quote",
                   [access_token |-> access_token, quote_id |-> quote_id,
                    quantity |-> quantity],
                   Exchange("AcceptQuote", req, outcome), outcome)

Next == sign_in \/ refresh_token \/ quote \/ accept_quote

Spec == Init /\ [][Next]_vars

TypeOK ==
    /\ calls \in 0..MaxCalls
    /\ sent \in Nat
    /\ call.op \in {"none", "sign_in", "refresh_token", "quote", "accept_quote"}
    /\ result.kind \in {"none", "Ok", "DecodingError", "NetworkingError", "HandledError"}

(***************************************************************************)
(* Properties                                                              *)
(***************************************************************************)
Called == call.op # "none"

\* The last call received a response.
Responded == Called /\ response.delivered

\* The last call received a response whose body is JSON.
GotJson == Responded /\ response.payload.form = "json"

FiftyThousand == [c |-> "fin", neg |-> FALSE, m |-> 3125, e |-> 4]
F32_123_45 == [c |-> "fin", neg |-> FALSE, m |-> 8090419, e |-> -16]

\* The strings and numbers of a success body, as the typed value must carry
\* them.
FieldsAsGiven(ty, v, value) ==
    CASE ty = "AuthResponse" ->
           /\ value.AuthenticationResult.AccessToken
                = v.o.AuthenticationResult.o.AccessToken.s
           /\ value.AuthenticationResult.RefreshToken
                = v.o.AuthenticationResult.o.RefreshToken.s
      [] ty = "Quote" ->
           /\ value.quote_id = v.o.quote_id.s
           /\ value.product_id = v.o.product_id.s
           /\ value.base_currency = v.o.base_currency.s
           /\ v.o.price.s = TxtPrice => value.price = FiftyThousand
           /\ v.o.side.s = <<"b", "u", "y">> => value.side = "Buy"
      [] ty = "AcceptQuote" ->
           /\ value.success = v.o.success.b
           /\ value.quote_id = v.o.quote_id.s
           /\ value.order.id = v.o.order.o.id.s
           /\ value.order.status = v.o.order.o.status.s
           /\ v.o.order.o.fill_price.s = TxtFillPrice
                => value.order.fill_price = F32_123_45
           /\ v.o.order.o.client_side.s = <<"s", "e", "l", "l">>
                => value.order.client_side = "Sell"

\* C1: for each operation, a JSON body that decodes as the operation's
\* success type is returned as the typed success value with the fields as
\* given, also when it carries `success` and `message`; the success decode is
\* the first attempt, and the error-shape decode is attempted only after the
\* success decode has failed.
C1_SuccessDecodeFirst ==
    GotJson =>
        LET v == response.payload.value
            ty == SuccessType(call.op)
            d == Decode(ty, v)
        IN  /\ d.ok => /\ result = Ok(d.v)
                       /\ attempts = <<[ty |-> ty, res |-> d]>>
                       /\ v.t = "obj" => FieldsAsGiven(ty, v, result.value)
            /\ Len(attempts) >= 1 /\ attempts[1].ty = ty
            /\ Len(attempts) = 2 =>
                   ~attempts[1].res.ok /\ attempts[2].ty = "EscherError"
            /\ (call.op = "quote" /\ v = JObj(QuoteObj @@ ErrorFields(FALSE, TxtExpired)))
                   => result.kind = "Ok"
            /\ (call.op = "accept_quote"
                /\ v = JObj(AcceptObj(TRUE, OrderObj) @@ ("message" :> JStr(TxtDone))))
                   => result.kind = "Ok"
            /\ (call.op \in {"sign_in", "refresh_token"}
                /\ v = JObj(AuthObj @@ ErrorFields(FALSE, TxtDenied)))
                   => result.kind = "Ok"

C1_Witness ==
    /\ GotJson
    /\ call.op = "accept_quote"
    /\ response.payload.value = JObj(AcceptObj(TRUE, OrderObj) @@ ("message" :> JStr(TxtDone)))
    /\ result.kind = "Ok"
    /\ result.value.order.fill_price = F32_123_45

\* C2: for every operation and message m, the body {success: false,
\* message: m} is returned as the handled error carrying m unchanged.
C2_StructuredErrorHandled ==
    \A m \in Messages :
        (GotJson /\ response.payload.value = JObj(ErrorFields(FALSE, m)))
            => result = HandledError([success |-> FALSE, message |-> m])

C2_Witness ==
    /\ GotJson
    /\ call.op = "accept_quote"
    /\ call.args.quantity = None
    /\ response.payload.value = JObj(ErrorFields(FALSE, TxtExpired))
    /\ result.kind = "HandledError"
    /\ result.err.message = TxtExpired

\* C3: for every operation, a JSON body that decodes neither as the success
\* type nor as the structured-error shape ({}, {foo: 1}, a Quote or Order
\* with a malformed numeric string) is returned as a decoding error.
C3_NeitherShapeIsDecodingError ==
    GotJson =>
        LET v == response.payload.value
            ty == SuccessType(call.op)
        IN  /\ (~Decode(ty, v).ok /\ ~Decode("EscherError", v).ok)
                   => result.kind = "DecodingError"
            /\ v \in {JObj(<<>>), JObj("foo" :> JNum(IntNum(1)))}
                   => result.kind = "DecodingError"
            /\ (call.op = "quote" /\ v = JObj(("price" :> JStr(TxtBadNumber)) @@ QuoteObj))
                   => result.kind = "DecodingError"
            /\ (call.op = "accept_quote"
                /\ v = JObj(AcceptObj(TRUE, ("fill_qty" :> JStr(TxtBadNumber)) @@ OrderObj)))
                   => result.kind = "DecodingError"

C3_Witness ==
    /\ GotJson
    /\ call.op = "quote"
    /\ response.payload.value = JObj(("price" :> JStr(TxtBadNumber)) @@ QuoteObj)
    /\ result.kind = "DecodingError"

\* C4 as claimed: a response whose body is not parseable as JSON is returned
\* as the decoding-error kind.
C4_NotJsonIsDecodingError ==
    (Responded /\ response.payload.form = "not json") => result.kind = "DecodingError"

\* C4 as amended: a response whose body is not parseable as JSON is returned
\* as the networking-error kind (the error of resp.json() is a reqwest
\* error), before any typed decode is attempted.
C4_NotJsonIsNetworkingError ==
    (Responded /\ response.payload.form = "not json")
        => /\ result = NetworkingError([reqwest |-> "decode"])
           /\ attempts = <<>>

C4_Witness ==
    /\ Responded
    /\ call.op = "sign_in"
    /\ response.payload.form = "not json"
    /\ result.kind = "NetworkingError"

\* C5: a handled error always carries success = false; a body whose
\* `success` is true is never surfaced as a handled error.
C5_HandledErrorHasSuccessFalse ==
    (Called /\ result.kind = "HandledError") => result.err.success = FALSE

\* C6: when both the success decode and the error-shape decode fail, the
\* decoding error returned is the one of the success decode attempt.
C6_OriginalDecodingFailure ==
    (Called /\ Len(attempts) = 2 /\ ~attempts[1].res.ok /\ ~attempts[2].res.ok)
        => result = DecodingError(attempts[1].res.err)

\* C7: a call issues exactly one outbound request whatever its outcome; a
\* transport failure is returned as a networking error without any decode
\* and without re-sending.
C7_OneRequestPerCall ==
    /\ sent = calls
    /\ Called =>
        /\ Len(outbox) = 1
        /\ ~response.delivered =>
               /\ result = NetworkingError([reqwest |-> response.failure])
               /\ attempts = <<>>

C7_Witness ==
    /\ calls = 2
    /\ call.op = "accept_quote"
    /\ ~response.delivered
    /\ result.kind = "NetworkingError"
    /\ Len(outbox) = 1

\* C8: the accept_quote request body carries the caller's quote_id; with
\* quantity None its `quantity` is absent or null, and with Some(q) its
\* `quantity` is exactly the number q.
C8_QuantityAsGiven ==
    (Called /\ call.op = "accept_quote") =>
        LET b == outbox[1].body.o
            q == call.args.quantity
        IN  /\ b.quote_id = JStr(call.args.quote_id)
            /\ ~q.some => ("quantity" \notin DOMAIN b \/ b.quantity = JNull)
            /\ q.some => /\ "quantity" \in DOMAIN b
                         /\ b.quantity.t = "num"
                         /\ q.v.c = "fin"
                         /\ b.quantity.n = [neg |-> q.v.neg, m |-> q.v.m, e |-> q.v.e]

\* C9: the `side` of the quote request body is the lowercase token of the
\* Side passed ("buy", "sell"), and decoding that token gives the Side back.
C9_SideLowercaseRoundTrip ==
    (Called /\ call.op = "quote") =>
        LET wire == outbox[1].body.o.side
        IN  /\ call.args.side = "Buy" => wire = JStr(<<"b", "u", "y">>)
            /\ call.args.side = "Sell" => wire = JStr(<<"s", "e", "l", "l">>)
            /\ Decode("Side", wire) = DOk(call.args.side)

C9_Witness ==
    /\ Called
    /\ call.op = "quote"
    /\ call.args.side = "Sell"
    /\ outbox[1].body.o.side.s = <<"s", "e", "l", "l">>

\* C10: the result of a call is determined by the response body and not by
\* the status: the same body under any other status gives the same result,
\* so under an error status an error-shaped body is a handled error and a
\* success-shaped body is a success.
C10_StatusIgnored ==
    Responded =>
        /\ \A st \in Statuses :
               Receive(SuccessType(call.op),
                       [status |-> st, payload |-> response.payload]).result = result
        /\ (response.payload.form = "json"
            /\ response.payload.value = JObj(ErrorFields(FALSE, TxtExpired)))
               => result.kind = "HandledError"
        /\ (call.op = "quote" /\ response.payload.form = "json"
            /\ response.payload.value = JObj(QuoteObj))
               => result.kind = "Ok"

C10_Witness ==
    /\ Responded
    /\ response.status = 500
    /\ call.op = "quote"
    /\ response.payload.form = "json"
    /\ response.payload.value = JObj(QuoteObj)
    /\ result.kind = "Ok"
====
